---- MODULE Spec2Model ----
(***************************************************************************)
(* State-machine model of gui.py: the WaveformWidget, PreviewWaveformWidget *)
(* and BeatBarWidget of a PlayerWidget, and the Gui that owns the players   *)
(* map and dispatches the data service's replies to them.                   *)
(***************************************************************************)
EXTENDS Integers, Sequences, FiniteSets, Bags, TLC

VARIABLES
  players,   \* Gui.players: player_number -> PlayerWidget
  requests,  \* bag of requests handed to prodj.dbs whose callback is still due
  call,      \* the entry point that ran last (see Called)
  raised,    \* the exception the last entry point let escape ("none" if none)
  progress   \* the relative value of the last setProgress call, None before it

vars == <<players, requests, call, raised, progress>>

---------------------------------------------------------------------------
\* Bounds of the model.
MaxTrack == 2         \* track ids 0..MaxTrack are reported by the client list
MaxOutstanding == 5   \* requests in flight
MaxOffset == 20       \* the timer stops once offset has reached this
MaxFrames == 4        \* setFrameCount is called with 1..MaxFrames
LongSamples == 760    \* sample count of the long buffer handed to setData directly

\* Python's None, and an optional value v, as sequences of length 0 and 1.
None == <<>>
Some(v) == <<v>>
IsNone(o) == o = <<>>
Get(o) == o[1]

\* track_id = None (gui.py:196) as an integer no client reports.
NoTrack == 0 - 1

---------------------------------------------------------------------------
\* Program constants of WaveformWidget and PreviewWaveformWidget.
waveform_height == 75
waveform_center == waveform_height \div 2
waveform_px_per_s == 150
HeaderLen == 20
TimerMs == 40
ScrollPxPerS == 142
PreviewWidth == 400

\* int(142*0.04): the product 5.68 truncated toward zero.
TimerStep == (ScrollPxPerS * TimerMs) \div 1000

\* What round(142*0.04) would be (half away from zero; 5.68 is no tie).
RoundedTimerStep == (2 * ScrollPxPerS * TimerMs + 1000) \div 2000

\* A relative position num/den in [0,1] is the pair <<num, den>>.
\* int(relative*frames): truncation of the non-negative product.
IntOfProduct(relative, frames) == (relative[1] * frames) \div relative[2]

\* round(relative*frames), Python's round: half to even.
RoundOfProduct(relative, frames) ==
  LET n == relative[1] * frames
      d == relative[2]
      q == n \div d
      r == n % d
  IN  IF 2 * r < d THEN q
      ELSE IF 2 * r > d THEN q + 1
      ELSE IF q % 2 = 0 THEN q ELSE q + 1

\* The relative positions offered to setPositionMarkerOffset and setProgress:
\* dyadic, so that the float product with a small integer is exact.
Relatives == {<<0, 1>>, <<1, 8>>, <<1, 4>>, <<1, 2>>, <<3, 4>>, <<1, 1>>}

---------------------------------------------------------------------------
\* Beatgrid.parse of the packets module: the buffer is <<count, beat_1, time_1,
\* ..., beat_count, time_count>>.  A buffer shorter than its count announces
\* fails with FieldError, a beat number outside 1..4 with RangeError.
Beatgrid_parse(buf) ==
  IF Len(buf) = 0 \/ Len(buf) < 1 + 2 * buf[1]
    THEN [ok |-> FALSE, error |-> "FieldError", beats |-> <<>>]
  ELSE IF \E i \in 1..buf[1] : buf[2 * i] \notin 1..4
    THEN [ok |-> FALSE, error |-> "RangeError", beats |-> <<>>]
  ELSE [ok |-> TRUE, error |-> "none",
        beats |-> [i \in 1..buf[1] |-> [beat |-> buf[2 * i], time |-> buf[2 * i + 1]]]]

\* The exceptions setBeatgridData catches.
CaughtErrors == {"RangeError", "FieldError"}

---------------------------------------------------------------------------
\* WaveformWidget

\* renderWaveformPixmap: the image composed from w's samples, beat markers and
\* marker offset.  bars[i] is the line drawn for sample i, ticks the set of
\* tick rectangles (top and bottom share x, length and brush) that fall inside
\* the image.
renderWaveformPixmap(w) ==
  LET data == Get(w.waveform_data)
      width == w.position_marker_offset + Len(data)
      bars == [i \in 1..Len(data) |->
                 [x |-> (i - 1) + w.position_marker_offset,
                  height |-> data[i] % 32,
                  whiteness |-> data[i] \div 32]]
      beats == IF IsNone(w.beatgrid_data) THEN <<>> ELSE Get(w.beatgrid_data).beats
      rects == { [x |-> (beats[k].time * waveform_px_per_s) \div 1000
                          + w.position_marker_offset - 1,
                  length |-> IF beats[k].beat = 1 THEN 8 ELSE 5,
                  brush |-> IF beats[k].beat = 1 THEN "red" ELSE "white"]
                 : k \in 1..Len(beats) }
      ticks == IF Len(data) > 0
                 THEN { r \in rects : r.x < width /\ r.x + 4 > 0 }
                 ELSE {}
  IN  [w EXCEPT !.pixmap = Some([width |-> width, height |-> waveform_height,
                                 bars |-> bars, ticks |-> ticks])]

\* setPositionMarkerOffset(relative)
\* Faulty variant: the product rounded instead of truncated.
setPositionMarkerOffset_round(w, relative) ==
  [w EXCEPT !.position_marker = relative,
            !.position_marker_offset = RoundOfProduct(relative, w.frames)]

setPositionMarkerOffset(w, relative) ==
  [w EXCEPT !.position_marker = relative,
            !.position_marker_offset = IntOfProduct(relative, w.frames)]

\* setFrameCount(frames)
\* Faulty variant: the marker offset is not recomputed.
setFrameCount_norecompute(w, frames) == [w EXCEPT !.frames = frames]

setFrameCount(w, frames) ==
  setPositionMarkerOffset([w EXCEPT !.frames = frames], w.position_marker)

\* setData(data): data[20:] replaces the samples and the image is recomposed.
\* Faulty variant: the samples are replaced and the image is left as it was.
setData_keep(w, data) ==
  [w EXCEPT !.waveform_data = Some(SubSeq(data, HeaderLen + 1, Len(data)))]

setData(w, data) ==
  renderWaveformPixmap(
    [w EXCEPT !.pixmap = None,
              !.waveform_data = Some(SubSeq(data, HeaderLen + 1, Len(data)))])

\* setBeatgridData(beatgrid_data): returns the widget and the exception that
\* escapes.  "if self.waveform_data" is false for None and for b''.
\* Faulty variant: a parse failure leaves the beat markers and the image alone.
setBeatgridData_stale(w, beatgrid_data) ==
  LET p == Beatgrid_parse(beatgrid_data)
  IN  IF p.ok
        THEN [w |-> IF ~IsNone(w.waveform_data) /\ Len(Get(w.waveform_data)) > 0
                      THEN renderWaveformPixmap(
                             [w EXCEPT !.beatgrid_data = Some([beats |-> p.beats])])
                      ELSE [w EXCEPT !.beatgrid_data = Some([beats |-> p.beats])],
              raised |-> "none"]
        ELSE [w |-> w, raised |-> "none"]

setBeatgridData(w, beatgrid_data) ==
  LET p == Beatgrid_parse(beatgrid_data)
      parsed == IF p.ok
                  THEN [w EXCEPT !.beatgrid_data = Some([beats |-> p.beats])]
                  ELSE [w EXCEPT !.beatgrid_data = None]
  IN  IF ~p.ok /\ p.error \notin CaughtErrors
        THEN [w |-> w, raised |-> p.error]
      ELSE IF ~IsNone(parsed.waveform_data) /\ Len(Get(parsed.waveform_data)) > 0
        THEN [w |-> renderWaveformPixmap(parsed), raised |-> "none"]
      ELSE [w |-> parsed, raised |-> "none"]

\* timerEvent: offset += int(142*0.04); update()
\* Faulty variant: the step rounded instead of truncated.
timerEvent_round(w) ==
  [w EXCEPT !.offset = @ + RoundedTimerStep, !.update = TRUE]

timerEvent(w) ==
  [w EXCEPT !.offset = @ + TimerStep, !.update = TRUE]

\* paintEvent: the region copied out of the image (QPixmap.copy leaves what
\* lies outside the image blank), the position marker stamped into it.
WaveformWidget_paintEvent(w) ==
  IF IsNone(w.pixmap)
    THEN [w EXCEPT !.update = FALSE, !.screen = None]
    ELSE [w EXCEPT !.update = FALSE,
                   !.screen = Some([x |-> w.offset, width |-> w.frames,
                                    height |-> waveform_height,
                                    marker |-> w.position_marker_offset,
                                    image_width |-> Get(w.pixmap).width])]

\* __init__
WaveformWidget_init ==
  setFrameCount(
    [waveform_data |-> None, beatgrid_data |-> None, pixmap |-> None,
     offset |-> 0, position_marker |-> <<1, 2>>,
     frames |-> 0, position_marker_offset |-> 0,
     update |-> FALSE, screen |-> None],
    waveform_px_per_s * 10)

---------------------------------------------------------------------------
\* PreviewWaveformWidget

PreviewWaveformWidget_init ==
  [data |-> None, position |-> 0, update |-> FALSE, screen |-> None]

\* setData(data)
PreviewWaveformWidget_setData(w, data) ==
  [w EXCEPT !.data = Some(data), !.update = TRUE]

\* setProgress(relative): int(400*relative) is cached, update() is called only
\* when it changes.
\* Faulty variant: update() is called whether or not the position changed.
setProgress_always(w, relative) ==
  [w EXCEPT !.position = (PreviewWidth * relative[1]) \div relative[2],
            !.update = TRUE]

setProgress(w, relative) ==
  LET new_position == (PreviewWidth * relative[1]) \div relative[2]
  IN  IF new_position # w.position
        THEN [w EXCEPT !.position = new_position, !.update = TRUE]
        ELSE w

\* paintEvent with drawPreviewWaveformPixmap: 400 bars when the buffer holds at
\* least 400 byte pairs, none otherwise; the baseline is always drawn.
PreviewWaveformWidget_paintEvent(w) ==
  LET enough == ~IsNone(w.data) /\ Len(Get(w.data)) >= PreviewWidth * 2
      bars == IF enough
                THEN [x \in 1..PreviewWidth |->
                        [height |-> Get(w.data)[2 * x - 1],
                         whiteness |-> Get(w.data)[2 * x] + 1]]
                ELSE <<>>
  IN  [w EXCEPT !.update = FALSE, !.screen = Some([bars |-> bars])]

---------------------------------------------------------------------------
\* BeatBarWidget

BeatBarWidget_init == [beat |-> 0, update |-> FALSE]

\* setBeat(beat)
setBeat(w, beat) ==
  IF beat # w.beat THEN [w EXCEPT !.beat = beat, !.update = TRUE] ELSE w

---------------------------------------------------------------------------
\* PlayerWidget.  The QLabel texts and pixmaps (title, artist, album, info,
\* bpm, pitch, master style, artwork) are written by setMetadata, setArtwork,
\* setSpeed, setMaster and setPlayerInfo and read by nothing; they are left
\* out of the record.
PlayerWidget_init ==
  [track_id |-> NoTrack,
   beat_bar |-> BeatBarWidget_init,
   waveform |-> WaveformWidget_init,
   preview_waveform |-> PreviewWaveformWidget_init]

---------------------------------------------------------------------------
\* The data service prodj.dbs and the client list prodj.cl, as far as gui.py
\* sees them: what a track's replies hold.

Tracks == 1..MaxTrack
\* The player numbers offered to the Gui: keepalive_slot accepts 1..4, so 1 can
\* come and go while 0 and 5 never get a view.
PlayerNumbers == {0, 1, 5}
RequestKinds == {"metadata", "artwork", "waveform", "preview_waveform", "beatgrid"}

Header == [i \in 1..HeaderLen |-> 0]
Samples(t) == [i \in 1..(t + 1) |-> (32 * t + i) % 256]
WaveformReply(t) == Header \o Samples(t)
ShortBuffer == <<1, 2, 3>>
LongBuffer == Header \o [i \in 1..LongSamples |-> (7 * i) % 256]

BeatgridReply(t) == <<2, 1, 7 * t, 2, 7 * t + 400>>
TruncatedBeatgrid(t) == SubSeq(BeatgridReply(t), 1, 3)
BadBeatBeatgrid == <<1, 9, 0>>

\* Preview buffers: height and colour byte per sample.  The Gui stores the
\* reply whatever its length (only paintEvent looks at the length), so the
\* replies delivered through dbserver_callback hold a few samples; the
\* full-length and the one-byte-short buffer are handed to the preview widget
\* directly.
PreviewReply(t) == [i \in 1..(2 * (t + 1)) |-> IF i % 2 = 1 THEN 2 + t ELSE t % 6]
FullPreview == [i \in 1..(2 * PreviewWidth) |-> IF i % 2 = 1 THEN 2 + (i % 20) ELSE i % 6]
ShortPreview == SubSeq(FullPreview, 1, 2 * PreviewWidth - 1)

\* The replies the data service may hand to the callback of a request.
Replies(request, item_id) ==
  CASE request = "metadata" ->
         { [title |-> item_id, artwork_id |-> a] : a \in {None, Some(0), Some(item_id)} }
    [] request = "waveform" -> { WaveformReply(item_id) }
    [] request = "preview_waveform" -> { PreviewReply(item_id) }
    [] request = "beatgrid" ->
         { BeatgridReply(item_id), TruncatedBeatgrid(item_id), BadBeatBeatgrid }
    [] OTHER -> { <<item_id>> }

\* The four requests change_callback issues for a track.
TrackRequests(player_number, track_id) ==
  SetToBag({ [request |-> k, player_number |-> player_number, item_id |-> track_id]
             : k \in {"metadata", "preview_waveform", "beatgrid", "waveform"} })

\* What the client list reports for a player.
Clients == [track_id : 0..MaxTrack, beat : {1}]

---------------------------------------------------------------------------
\* Gui

\* The value of call: the entry point, and for dbserver_callback the player
\* number it was called with (0 for the other entry points).
Called(op) == [op |-> op, player_number |-> 0]

\* __init__: create_player(1)
Init ==
  /\ players = (1 :> PlayerWidget_init)
  /\ requests = EmptyBag
  /\ call = Called("__init__")
  /\ raised = "none"
  /\ progress = None

\* create_player(player_number)
create_player(ps, player_number) ==
  IF player_number \in DOMAIN ps THEN ps
  ELSE (player_number :> PlayerWidget_init) @@ ps

\* remove_player(player_number)
remove_player(player_number) ==
  /\ call' = Called("remove_player")
  /\ raised' = "none"
  /\ players' = IF player_number \notin DOMAIN players THEN players
                ELSE [q \in DOMAIN players \ {player_number} |-> players[q]]
  /\ UNCHANGED <<requests, progress>>

\* keepalive_slot(player_number)
keepalive_slot(player_number) ==
  /\ call' = Called("keepalive_slot")
  /\ raised' = "none"
  /\ players' = IF player_number \notin 1..4 THEN players
                ELSE create_player(players, player_number)
  /\ UNCHANGED <<requests, progress>>

\* change_callback(clientlist, player_number), c = clientlist.getClient(...)
\* Faulty variant: the requested track id is not remembered.
change_callback_norecord(player_number, c) ==
  /\ call' = Called("change_callback")
  /\ raised' = "none"
  /\ IF player_number \notin DOMAIN players
       THEN UNCHANGED <<players, requests>>
       ELSE LET pw == players[player_number]
                changed == pw.track_id # c.track_id /\ c.track_id # 0
            IN  /\ players' = [players EXCEPT ![player_number] =
                                 [pw EXCEPT !.beat_bar = setBeat(@, c.beat)]]
                /\ requests' = IF changed
                                 THEN requests (+) TrackRequests(player_number, c.track_id)
                                 ELSE requests
  /\ UNCHANGED progress

change_callback(player_number, c) ==
  /\ call' = Called("change_callback")
  /\ raised' = "none"
  /\ IF player_number \notin DOMAIN players
       THEN UNCHANGED <<players, requests>>
       ELSE LET pw == players[player_number]
                changed == pw.track_id # c.track_id /\ c.track_id # 0
            IN  /\ players' = [players EXCEPT ![player_number] =
                                 [pw EXCEPT !.beat_bar = setBeat(@, c.beat),
                                            !.track_id = IF changed THEN c.track_id ELSE @]]
                /\ requests' = IF changed
                                 THEN requests (+) TrackRequests(player_number, c.track_id)
                                 ELSE requests
  /\ UNCHANGED progress

\* dbserver_callback(request, player_number, slot, item_id, reply): what it
\* does to the views.  In the metadata branch the arguments of get_artwork
\* name player_slot, which is bound nowhere: NameError escapes after
\* setMetadata and no artwork request is issued.
\* Faulty variant: no membership test, self.players[player_number] raises
\* KeyError for an absent player.
dbserver_callback_noguard(request, player_number, item_id, reply) ==
  /\ call' = [Called("dbserver_callback") EXCEPT !.player_number = player_number]
  /\ IF player_number \notin DOMAIN players
       THEN raised' = "KeyError" /\ players' = players
       ELSE LET pw == players[player_number]
                bg == setBeatgridData(pw.waveform, reply)
            IN  CASE request = "metadata" ->
                       /\ players' = players
                       /\ raised' = IF ~IsNone(reply.artwork_id) /\ Get(reply.artwork_id) # 0
                                      THEN "NameError" ELSE "none"
                  [] request = "artwork" ->
                       /\ players' = players
                       /\ raised' = "none"
                  [] request = "waveform" ->
                       /\ players' = [players EXCEPT ![player_number].waveform =
                                        setData(@, reply)]
                       /\ raised' = "none"
                  [] request = "preview_waveform" ->
                       /\ players' = [players EXCEPT ![player_number].preview_waveform =
                                        PreviewWaveformWidget_setData(@, reply)]
                       /\ raised' = "none"
                  [] request = "beatgrid" ->
                       /\ players' = [players EXCEPT ![player_number].waveform = bg.w]
                       /\ raised' = bg.raised
                  [] OTHER -> raised' = "none" /\ players' = players
  /\ UNCHANGED progress

dbserver_callback(request, player_number, item_id, reply) ==
  /\ call' = [Called("dbserver_callback") EXCEPT !.player_number = player_number]
  /\ IF player_number \notin DOMAIN players
       THEN raised' = "none" /\ players' = players
       ELSE LET pw == players[player_number]
                bg == setBeatgridData(pw.waveform, reply)
            IN  CASE request = "metadata" ->
                       /\ players' = players
                       /\ raised' = IF ~IsNone(reply.artwork_id) /\ Get(reply.artwork_id) # 0
                                      THEN "NameError" ELSE "none"
                  [] request = "artwork" ->
                       /\ players' = players
                       /\ raised' = "none"
                  [] request = "waveform" ->
                       /\ players' = [players EXCEPT ![player_number].waveform =
                                        setData(@, reply)]
                       /\ raised' = "none"
                  [] request = "preview_waveform" ->
                       /\ players' = [players EXCEPT ![player_number].preview_waveform =
                                        PreviewWaveformWidget_setData(@, reply)]
                       /\ raised' = "none"
                  [] request = "beatgrid" ->
                       /\ players' = [players EXCEPT ![player_number].waveform = bg.w]
                       /\ raised' = bg.raised
                  [] OTHER -> raised' = "none" /\ players' = players
  /\ UNCHANGED progress

\* The client list notifies the Gui of a change; at most MaxOutstanding
\* requests are in flight.
Notify ==
  \E player_number \in PlayerNumbers : \E c \in Clients :
    /\ BagCardinality(requests) + 4 <= MaxOutstanding
    /\ change_callback(player_number, c)

\* The data service answers an outstanding request.
Deliver ==
  \E r \in BagToSet(requests) : \E reply \in Replies(r.request, r.item_id) :
    /\ dbserver_callback(r.request, r.player_number, r.item_id, reply)
    /\ requests' = requests (-) SetToBag({r})

Keepalive == \E player_number \in PlayerNumbers : keepalive_slot(player_number)

Remove == \E player_number \in PlayerNumbers : remove_player(player_number)

Next == Notify \/ Deliver \/ Keepalive \/ Remove

Spec == Init /\ [][Next]_vars

\* Two players that come and go, each loading the one track 1 or none.
BothPlayers == {1, 2}
OneTrackClients == [track_id : {0, 1}, beat : {1}]

NotifyPlayers ==
  \E player_number \in BothPlayers : \E c \in OneTrackClients :
    /\ BagCardinality(requests) + 4 <= MaxOutstanding
    /\ change_callback(player_number, c)

KeepalivePlayers == \E player_number \in BothPlayers : keepalive_slot(player_number)

RemovePlayers == \E player_number \in BothPlayers : remove_player(player_number)

NextPlayers == NotifyPlayers \/ Deliver \/ KeepalivePlayers \/ RemovePlayers

SpecPlayers == Init /\ [][NextPlayers]_vars

---------------------------------------------------------------------------
\* The widgets' entry points called on the view of an existing player.

ViewBuffers == { WaveformReply(t) : t \in Tracks } \cup {ShortBuffer, LongBuffer}
BeatgridBuffers ==
  { BeatgridReply(t) : t \in Tracks } \cup { TruncatedBeatgrid(t) : t \in Tracks }
    \cup {BadBeatBeatgrid}
ProgressValues == Relatives \cup {<<1, 512>>}

View_setData(p, data) ==
  /\ call' = Called("setData")
  /\ raised' = "none"
  /\ players' = [players EXCEPT ![p].waveform = setData(@, data)]
  /\ UNCHANGED <<requests, progress>>

View_setBeatgridData(p, beatgrid_data) ==
  LET bg == setBeatgridData(players[p].waveform, beatgrid_data)
  IN  /\ call' = Called("setBeatgridData")
      /\ raised' = bg.raised
      /\ players' = [players EXCEPT ![p].waveform = bg.w]
      /\ UNCHANGED <<requests, progress>>

View_timerEvent(p) ==
  /\ call' = Called("timerEvent")
  /\ raised' = "none"
  /\ players' = [players EXCEPT ![p].waveform = timerEvent(@)]
  /\ UNCHANGED <<requests, progress>>

View_paintEvent(p) ==
  /\ call' = Called("paintEvent")
  /\ raised' = "none"
  /\ players' = [players EXCEPT ![p].waveform = WaveformWidget_paintEvent(@)]
  /\ UNCHANGED <<requests, progress>>

View_setFrameCount(p, frames) ==
  /\ call' = Called("setFrameCount")
  /\ raised' = "none"
  /\ players' = [players EXCEPT ![p].waveform = setFrameCount(@, frames)]
  /\ UNCHANGED <<requests, progress>>

View_setPositionMarkerOffset(p, relative) ==
  /\ call' = Called("setPositionMarkerOffset")
  /\ raised' = "none"
  /\ players' = [players EXCEPT ![p].waveform = setPositionMarkerOffset(@, relative)]
  /\ UNCHANGED <<requests, progress>>

Preview_setData(p, data) ==
  /\ call' = Called("preview.setData")
  /\ raised' = "none"
  /\ players' = [players EXCEPT ![p].preview_waveform =
                   PreviewWaveformWidget_setData(@, data)]
  /\ UNCHANGED <<requests, progress>>

Preview_setProgress(p, relative) ==
  /\ call' = Called("setProgress")
  /\ raised' = "none"
  /\ players' = [players EXCEPT ![p].preview_waveform = setProgress(@, relative)]
  /\ progress' = Some(relative)
  /\ UNCHANGED requests

Preview_paintEvent(p) ==
  /\ call' = Called("preview.paintEvent")
  /\ raised' = "none"
  /\ players' = [players EXCEPT ![p].preview_waveform =
                   PreviewWaveformWidget_paintEvent(@)]
  /\ UNCHANGED <<requests, progress>>

\* The timer of a view fires; the model stops it at MaxOffset.
Tick ==
  \E p \in DOMAIN players :
    /\ players[p].waveform.offset < MaxOffset
    /\ View_timerEvent(p)

Paint == \E p \in DOMAIN players : View_paintEvent(p)

SetData == \E p \in DOMAIN players : \E data \in ViewBuffers : View_setData(p, data)

SetBeatgridData ==
  \E p \in DOMAIN players : \E b \in BeatgridBuffers : View_setBeatgridData(p, b)

SetFrameCount ==
  \E p \in DOMAIN players : \E frames \in 1..MaxFrames : View_setFrameCount(p, frames)

SetPositionMarkerOffset ==
  \E p \in DOMAIN players : \E relative \in Relatives :
    View_setPositionMarkerOffset(p, relative)

SetShortData ==
  \E p \in DOMAIN players : \E t \in Tracks : View_setData(p, WaveformReply(t))

SetPreviewData ==
  \E p \in DOMAIN players : \E data \in {FullPreview, ShortPreview} :
    Preview_setData(p, data)

SetProgress ==
  \E p \in DOMAIN players : \E relative \in ProgressValues :
    Preview_setProgress(p, relative)

PaintPreview == \E p \in DOMAIN players : Preview_paintEvent(p)

\* The waveform view under data arrival, timer and repaint.
NextView == SetData \/ SetBeatgridData \/ Tick \/ Paint

SpecView == Init /\ [][NextView]_vars

\* The waveform view under configuration calls as well.
NextConfig == SetFrameCount \/ SetPositionMarkerOffset \/ SetShortData \/ Tick

SpecConfig == Init /\ [][NextConfig]_vars

\* The preview view.
NextPreview == SetPreviewData \/ SetProgress \/ PaintPreview

SpecPreview == Init /\ [][NextPreview]_vars

---------------------------------------------------------------------------
\* Properties

Waveform(p) == players[p].waveform
Preview(p) == players[p].preview_waveform
HasSamples(w) == ~IsNone(w.waveform_data) /\ Len(Get(w.waveform_data)) > 0
DataReplyKinds == {"waveform", "preview_waveform", "beatgrid"}

\* C1: a waveform, preview-waveform or beat-grid reply for track A that is
\* delivered after the view's remembered track has changed to B is dropped:
\* it leaves the view as it was.
C1_StaleReplyDropped ==
  [][\A r \in BagToSet(requests) : \A reply \in Replies(r.request, r.item_id) :
       ( /\ r.request \in DataReplyKinds
         /\ r.player_number \in DOMAIN players
         /\ players[r.player_number].track_id \in Tracks \ {r.item_id}
         /\ dbserver_callback(r.request, r.player_number, r.item_id, reply) )
       => players'[r.player_number] = players[r.player_number]]_vars

\* C2: the reply to any outstanding request, delivered for a player number
\* that is not in the players map, raises nothing and leaves the map and every
\* view in it unchanged.
C2_AbsentPlayerReplyDropped ==
  [][\A r \in BagToSet(requests) :
       (call'.op = "dbserver_callback" /\ r.player_number \notin DOMAIN players) =>
         \A reply \in Replies(r.request, r.item_id) :
           dbserver_callback(r.request, r.player_number, r.item_id, reply)
           => (players' = players /\ raised' = "none")]_vars

C2_Witness ==
  /\ call.op = "dbserver_callback"
  /\ call.player_number = 1
  /\ DOMAIN players = {2}
  /\ HasSamples(Waveform(2))
  /\ raised = "none"

\* C3: setBeatgridData with a buffer that fails to parse lets no exception
\* escape, leaves the view without beat markers, and, when samples are
\* present, leaves an image recomposed from them without tick marks.
C3_ParseFailureClearsBeatgrid ==
  [][\A p \in DOMAIN players : \A b \in BeatgridBuffers :
       (~Beatgrid_parse(b).ok /\ View_setBeatgridData(p, b))
       => LET w == players'[p].waveform
          IN  /\ raised' = "none"
              /\ IsNone(w.beatgrid_data)
              /\ w.waveform_data = Waveform(p).waveform_data
              /\ HasSamples(w) =>
                   /\ ~IsNone(w.pixmap)
                   /\ Get(w.pixmap).ticks = {}
                   /\ Len(Get(w.pixmap).bars) = Len(Get(w.waveform_data))]_vars

C3_Witness ==
  /\ call.op = "setBeatgridData"
  /\ raised = "none"
  /\ IsNone(Waveform(1).beatgrid_data)
  /\ HasSamples(Waveform(1))
  /\ Get(Waveform(1).pixmap).ticks = {}

\* C4: whenever non-empty samples are present, the image is the one composed
\* from the current samples and beat markers; a timer tick leaves the image
\* as it is.
C4_ImageIsCurrent ==
  /\ [](\A p \in DOMAIN players :
          HasSamples(Waveform(p)) =>
            Waveform(p).pixmap = renderWaveformPixmap(Waveform(p)).pixmap)
  /\ [][\A p \in DOMAIN players :
          View_timerEvent(p) => players'[p].waveform.pixmap = Waveform(p).pixmap]_vars

C4_Witness ==
  /\ HasSamples(Waveform(1))
  /\ ~IsNone(Waveform(1).beatgrid_data)
  /\ Get(Waveform(1).pixmap).ticks # {}
  /\ Waveform(1).offset > 0

\* C5 as claimed: every timer tick adds round(142 * 0.040) = 6 to the offset.
C5_TickAddsSix ==
  [][\A p \in DOMAIN players :
       View_timerEvent(p) => players'[p].waveform.offset = Waveform(p).offset + 6]_vars

\* C5 as amended: every timer tick adds int(142 * 0.040) = 5 to the offset and
\* nothing else changes it, so that after n ticks from construction it is 5n.
C5_TickAddsFive ==
  /\ [](\A p \in DOMAIN players : Waveform(p).offset % 5 = 0)
  /\ [][\A p \in DOMAIN players :
          /\ View_timerEvent(p) => players'[p].waveform.offset = Waveform(p).offset + 5
          /\ players'[p].waveform.offset # Waveform(p).offset => View_timerEvent(p)]_vars

C5_Witness ==
  /\ call.op = "timerEvent"
  /\ Waveform(1).offset = 10

\* C6 as claimed: the marker offset is round(position_marker * frames).
C6_MarkerOffsetRounded ==
  \A p \in DOMAIN players :
    Waveform(p).position_marker_offset
      = RoundOfProduct(Waveform(p).position_marker, Waveform(p).frames)

\* C6 as amended: the marker offset is the product position_marker * frames
\* truncated toward zero: the largest integer m with m <= num * frames / den.
C6_MarkerOffsetTruncated ==
  \A p \in DOMAIN players :
    LET w == Waveform(p)
        m == w.position_marker_offset
    IN  /\ m * w.position_marker[2] <= w.position_marker[1] * w.frames
        /\ w.position_marker[1] * w.frames < (m + 1) * w.position_marker[2]

C6_Witness ==
  /\ Waveform(1).frames = 3
  /\ Waveform(1).position_marker = <<1, 4>>
  /\ Waveform(1).position_marker_offset = 0

\* C7: setProgress requests a redraw only when its relative value differs from
\* that of the previous call (before the first call: only when the position
\* differs from the initial 0); a call that repeats the previous value
\* requests no redraw and leaves the cached position as it is.
C7_ProgressDebounced ==
  [][\A p \in DOMAIN players : \A r \in ProgressValues :
       Preview_setProgress(p, r) =>
         LET w == players'[p].preview_waveform
         IN  /\ (w.update /\ ~Preview(p).update) =>
                  /\ progress # Some(r)
                  /\ IsNone(progress) => w.position # 0
             /\ progress = Some(r) => w = Preview(p)]_vars

C7_Witness ==
  /\ call.op = "setProgress"
  /\ progress = Some(<<1, 2>>)
  /\ Preview(1).position = 200
  /\ ~Preview(1).update

\* C8: a change notification for an existing view issues the metadata,
\* preview-waveform, beat-grid and waveform requests once each, and remembers
\* the track id, exactly when the track id is non-zero and differs from the
\* remembered one; otherwise it issues nothing and remembers what it did.
C8_RequestsOncePerChange ==
  [][\A p \in DOMAIN players : \A c \in Clients :
       (call'.op = "change_callback" /\ change_callback(p, c)) =>
         IF c.track_id # 0 /\ c.track_id # players[p].track_id
           THEN /\ players'[p].track_id = c.track_id
                /\ requests' = requests (+) TrackRequests(p, c.track_id)
                /\ \A k \in {"metadata", "preview_waveform", "beatgrid", "waveform"} :
                     CopiesIn([request |-> k, player_number |-> p,
                               item_id |-> c.track_id], requests')
                       = CopiesIn([request |-> k, player_number |-> p,
                                   item_id |-> c.track_id], requests) + 1
           ELSE /\ players'[p].track_id = players[p].track_id
                /\ requests' = requests]_vars

C8_Witness ==
  /\ call.op = "change_callback"
  /\ 1 \in DOMAIN players
  /\ players[1].track_id = 2
  /\ BagCardinality(requests) = 5

C10_TicksOfSameTrack ==
  \A p \in DOMAIN players :
    (~IsNone(Waveform(p).pixmap) /\ Get(Waveform(p).pixmap).ticks # {}) =>
      \E t \in Tracks :
        /\ Waveform(p).waveform_data = Some(Samples(t))
        /\ Waveform(p).beatgrid_data
             = Some([beats |-> Beatgrid_parse(BeatgridReply(t)).beats])

====
